---- MODULE Spec2Model ----
(***************************************************************************)
(* The signaling relay (server/server.js) and the call session controller  *)
(* (webrtc-voip/src/VoIPApp.jsx; the cross-tab variant in unnamed/part_000 *)
(* has the same handlers) as one state machine.                            *)
(*                                                                         *)
(* Two controllers, "A" and "B", each hold one signaling connection to the *)
(* relay.  A third connection, "X", is a plain WebSocket peer: the relay   *)
(* accepts any client, and X may transmit any payload.  The media          *)
(* collaborator (RTCPeerConnection, getUserMedia) is external: each of its *)
(* asynchronous operations resolves or rejects nondeterministically, and   *)
(* an operation on a closed link never resolves.                           *)
(***************************************************************************)
EXTENDS Naturals, Sequences, FiniteSets, TLC

Controllers == {"A", "B"}
Ext == "X"
Conns == Controllers \cup {Ext}

\* null / undefined / "" : every falsy value of a field
None == "none"
\* the identities Math.random can draw in generateClientId
Ids == {"1111", "2222"}
\* the identity the external peer writes into the frames it forges
ForeignId == "9999"

\* the number of environment events (user clicks, forged frames, local
\* candidates, connection losses, reloads) in one behaviour
MaxEvents == 2

VARIABLES
    relayUp,        \* the relay process is running
    readyState,     \* per connection: CONNECTING, OPEN, CLOSING, CLOSED
    toRelay,        \* per connection: frames in flight to the relay
    toClient,       \* per connection: frames the relay delivered
    storage,        \* localStorage['voip-client-id'] of each controller
    clientId,       \* useState(generateClientId())
    socket,         \* useWebSocket's socket state is non-null
    isConnected,    \* useWebSocket's isConnected state
    callState,      \* idle, calling, receiving, connected
    media,          \* getLocalMedia: pending, ready, denied
    connectionState,\* useWebRTC's connectionState state
    targetClientId, \* the target identity state
    links,          \* per controller: every RTCPeerConnection it created
    pcRef,          \* peerConnectionRef.current: index into links, 0 = null
    tasks,          \* per controller: suspended async handler chains
    events,         \* environment events so far
    cleared,        \* history: the stored identity was removed
    registeredIds,  \* history: the clientIds of the register frames sent
    firstSent       \* history: type of the first frame sent on the channel

vars == <<relayUp, readyState, toRelay, toClient, storage, clientId, socket,
          isConnected, callState, media, targetClientId, links, pcRef, tasks,
          events, cleared, registeredIds, firstSent, connectionState>>

relayVars == <<relayUp, readyState, toRelay, toClient>>
chanVars == <<socket, isConnected>>
idVars == <<storage, clientId, cleared>>
callVars == <<callState, targetClientId, links, pcRef, tasks>>
histVars == <<registeredIds, firstSent>>

----------------------------------------------------------------------------
\* Wire format

Msg(type, from, target, body) ==
    [type |-> type, from |-> from, target |-> target, body |-> body]

NoMsg == Msg(None, None, None, None)

\* JSON.stringify of a message object: a well-formed frame
JSONstringify(m) == [wf |-> TRUE, msg |-> m]

\* a payload that is not JSON
Garbage == [wf |-> FALSE, msg |-> NoMsg]

\* JSON.parse: throws on a payload that is not JSON
JSONparse(raw) ==
    IF raw.wf THEN [ok |-> TRUE, val |-> raw.msg]
    ELSE [ok |-> FALSE, val |-> NoMsg]

RemoveAt(s, i) == [j \in 1..(Len(s) - 1) |-> IF j < i THEN s[j] ELSE s[j + 1]]

----------------------------------------------------------------------------
\* Relay

\* wss.clients: the sockets the server tracks
wssClients == {c \in Conns : readyState[c] \in {"OPEN", "CLOSING"}}

RoutedOfferOnly(type) == type = "offer"

\* the cases of the relay's switch that broadcast
Routed(type) == type \in {"offer", "answer", "candidate"}

RecipientsWithSender(s) == {c \in wssClients : readyState[c] = "OPEN"}

RecipientsAnyState(s) == {c \in wssClients : c # s}

\* wss.clients.forEach: client !== socket && client.readyState === OPEN
Recipients(s) == {c \in wssClients : c # s /\ readyState[c] = "OPEN"}

RelayOutcomeUncaught(raw) ==
    IF ~JSONparse(raw).ok THEN "crash"
    ELSE IF Routed(JSONparse(raw).val.type) THEN "broadcast"
    ELSE "unhandled"

\* what the message handler does with a payload: the try/catch around
\* JSON.parse, then the switch on the type
RelayOutcome(raw) ==
    IF ~JSONparse(raw).ok THEN "caught"
    ELSE IF Routed(JSONparse(raw).val.type) THEN "broadcast"
    ELSE "unhandled"

ForwardedWithoutTarget(raw) ==
    JSONstringify([JSONparse(raw).val EXCEPT !.target = None])

\* what the relay sends to a recipient: JSON.stringify of the object that
\* JSON.parse made of the payload
Forwarded(raw) == JSONstringify(JSONparse(raw).val)

\* socket.on('message')
RelayOnMessage(s) ==
    /\ relayUp
    /\ s \in wssClients
    /\ toRelay[s] # <<>>
    /\ LET raw == Head(toRelay[s])
           out == RelayOutcome(raw)
       IN  /\ toRelay' = [toRelay EXCEPT ![s] = Tail(@)]
           /\ toClient' =
                IF out = "broadcast"
                THEN [c \in Conns |->
                        IF c \in Recipients(s)
                        THEN Append(toClient[c], Forwarded(raw))
                        ELSE toClient[c]]
                ELSE toClient
           \* an exception that leaves the handler ends the process
           /\ relayUp' = (out # "crash")
    /\ UNCHANGED <<readyState, chanVars, idVars, callVars, histVars, media,
                   connectionState,
                   events>>

----------------------------------------------------------------------------
\* Identity

GenerateClientIdFresh(stored, rnd) == rnd

\* generateClientId: the stored identity, or a new random one when none is
\* stored; rnd is the value Math.random would produce
GenerateClientId(stored, rnd) == IF stored # None THEN stored ELSE rnd

----------------------------------------------------------------------------
\* Signaling channel of a controller

SendMessageAsGiven(c, sock, m) ==
    IF sock /\ readyState[c] = "OPEN"
    THEN Append(toRelay[c], JSONstringify(m))
    ELSE toRelay[c]

SendMessageAnyState(c, sock, m) ==
    Append(toRelay[c], JSONstringify([m EXCEPT !.from = clientId[c]]))

\* sendMessage with the socket its closure captured: sock is whether that
\* socket was non-null and is still the controller's channel
SendMessage(c, sock, m) ==
    IF sock /\ readyState[c] = "OPEN"
    THEN Append(toRelay[c], JSONstringify([m EXCEPT !.from = clientId[c]]))
    ELSE toRelay[c]

Sent(c, sock) == sock /\ readyState[c] = "OPEN"

NoteSent(c, sock, type) ==
    IF Sent(c, sock) /\ firstSent[c] = None
    THEN [firstSent EXCEPT ![c] = type]
    ELSE firstSent

\* ws.onopen: send register, setIsConnected(true), setSocket(ws)
WsOpen(c) ==
    /\ c \in Controllers
    /\ relayUp
    /\ readyState[c] = "CONNECTING"
    /\ readyState' = [readyState EXCEPT ![c] = "OPEN"]
    /\ toRelay' = [toRelay EXCEPT ![c] =
            <<JSONstringify(Msg("register", None, None, clientId[c]))>>]
    /\ toClient' = [toClient EXCEPT ![c] = <<>>]
    /\ isConnected' = [isConnected EXCEPT ![c] = TRUE]
    /\ socket' = [socket EXCEPT ![c] = TRUE]
    /\ registeredIds' = [registeredIds EXCEPT ![c] = @ \cup {clientId[c]}]
    /\ firstSent' = [firstSent EXCEPT ![c] = "register"]
    /\ UNCHANGED <<relayUp, idVars, callVars, media, connectionState, events>>

\* the connection attempt fails: ws.onerror, then ws.onclose
WsConnectFail(c) ==
    /\ c \in Controllers
    /\ events < MaxEvents
    /\ readyState[c] = "CONNECTING"
    /\ readyState' = [readyState EXCEPT ![c] = "CLOSED"]
    /\ isConnected' = [isConnected EXCEPT ![c] = FALSE]
    /\ socket' = [socket EXCEPT ![c] = FALSE]
    /\ events' = events + 1
    /\ UNCHANGED <<relayUp, toRelay, toClient, idVars, callVars, histVars,
                   media, connectionState>>

\* the close handshake starts on an open connection
BeginClose(c) ==
    /\ events < MaxEvents
    /\ readyState[c] = "OPEN"
    /\ readyState' = [readyState EXCEPT ![c] = "CLOSING"]
    /\ events' = events + 1
    /\ UNCHANGED <<relayUp, toRelay, toClient, chanVars, idVars, callVars,
                   histVars, media, connectionState>>

\* the closures that captured the closed socket can no longer send
DropSocket(ts) == [i \in 1..Len(ts) |-> [ts[i] EXCEPT !.sock = FALSE]]

CloseNoticePeerLeft(c) == <<JSONstringify(Msg("peer-left", None, None, None))>>

\* the frames socket.on('close') sends to the other connections: it only
\* logs
CloseNotice(c) == <<>>

\* what each connection has received once c's connection is gone
Disconnected(c) ==
    [d \in Conns |->
        IF d = c THEN <<>>
        ELSE IF d \in Recipients(c) THEN toClient[d] \o CloseNotice(c)
        ELSE toClient[d]]

\* the connection is gone: the server forgets it (socket.on('close')), and
\* a controller runs ws.onclose, which arms the reconnection timer
FinishClose(c) ==
    /\ \/ readyState[c] = "CLOSING" /\ events' = events
       \/ readyState[c] = "OPEN" /\ events < MaxEvents /\ events' = events + 1
    /\ readyState' = [readyState EXCEPT ![c] = "CLOSED"]
    /\ toRelay' = [toRelay EXCEPT ![c] = <<>>]
    /\ toClient' = Disconnected(c)
    /\ IF c \in Controllers
       THEN /\ isConnected' = [isConnected EXCEPT ![c] = FALSE]
            /\ socket' = [socket EXCEPT ![c] = FALSE]
            /\ tasks' = [tasks EXCEPT ![c] = DropSocket(@)]
            /\ links' = [links EXCEPT ![c] = DropSocket(@)]
            /\ firstSent' = [firstSent EXCEPT ![c] = None]
       ELSE UNCHANGED <<chanVars, tasks, links, firstSent>>
    /\ UNCHANGED <<relayUp, idVars, callState, targetClientId, pcRef,
                   registeredIds, media, connectionState>>

ReconnectTimerDisarmed(c) == FALSE

\* setTimeout(createWebSocket, 3000) fires: new WebSocket(url)
ReconnectTimer(c) ==
    /\ c \in Controllers
    /\ readyState[c] = "CLOSED"
    /\ readyState' = [readyState EXCEPT ![c] = "CONNECTING"]
    /\ UNCHANGED <<relayUp, toRelay, toClient, chanVars, idVars, callVars,
                   histVars, media, connectionState, events>>

----------------------------------------------------------------------------
\* Media collaborator and the controller's handlers

\* initializeMedia: getLocalMedia resolves (setMediaReady(true)) or rejects
MediaResult(c, ok) ==
    /\ c \in Controllers
    /\ media[c] = "pending"
    /\ media' = [media EXCEPT ![c] = IF ok THEN "ready" ELSE "denied"]
    /\ UNCHANGED <<relayVars, chanVars, idVars, callVars, histVars, events,
                   connectionState>>

mediaReady(c) == media[c] = "ready"

\* the target input's onChange: setTargetClientId(e.target.value)
SetTarget(c, t) ==
    /\ c \in Controllers
    /\ events < MaxEvents
    /\ t # targetClientId[c]
    /\ targetClientId' = [targetClientId EXCEPT ![c] = t]
    /\ events' = events + 1
    /\ UNCHANGED <<relayVars, chanVars, idVars, callState, links, pcRef,
                   tasks, histVars, media, connectionState>>

NewLink(peer, sock) ==
    [peer |-> peer, closed |-> FALSE, local |-> FALSE, sock |-> sock]

CreatePeerConnectionNoClose(c, peer, sock) ==
    Append(links[c], NewLink(peer, sock))

\* createPeerConnection: close the link peerConnectionRef holds, create a
\* new one for the peer; the result is the controller's links, the new
\* link last
CreatePeerConnection(c, peer, sock) ==
    Append([i \in 1..Len(links[c]) |->
                IF i = pcRef[c] THEN [links[c][i] EXCEPT !.closed = TRUE]
                ELSE links[c][i]],
           NewLink(peer, sock))

Task(kind, pc, pos, peer, sock) ==
    [kind |-> kind, pc |-> pc, pos |-> pos, peer |-> peer, sock |-> sock]

isCallButtonDisabled(c) ==
    \/ ~isConnected[c]
    \/ ~mediaReady(c)
    \/ callState[c] # "idle"
    \/ targetClientId[c] = None

\* initiateCall up to its first suspension: setCallState('calling'), then
\* createOffer creates the link and awaits pc.createOffer()
InitiateCall(c) ==
    /\ c \in Controllers
    /\ events < MaxEvents
    /\ ~isCallButtonDisabled(c)
    /\ callState' = [callState EXCEPT ![c] = "calling"]
    /\ links' = [links EXCEPT ![c] =
                    CreatePeerConnection(c, targetClientId[c], socket[c])]
    /\ pcRef' = [pcRef EXCEPT ![c] = Len(links[c]) + 1]
    /\ tasks' = [tasks EXCEPT ![c] =
                    Append(@, Task("call", Len(links[c]) + 1, "createOffer",
                                   targetClientId[c], socket[c]))]
    /\ events' = events + 1
    /\ UNCHANGED <<relayVars, chanVars, idVars, targetClientId, histVars,
                   media, connectionState>>

DiscardsNothing(c, m) == FALSE

DiscardsAddressed(c, m) == m.target # None

\* "Ignore messages not meant for this client"
Discards(c, m) == m.target # None /\ m.target # clientId[c]

\* addIceCandidate up to its first suspension: nothing without an active
\* link or without candidate data; new RTCIceCandidate throws on data it
\* cannot read, inside addIceCandidate's own try; otherwise the chain awaits
\* pc.addIceCandidate
AddIceCandidate(c, m) ==
    IF pcRef[c] # 0 /\ m.body \notin {None, "bad"}
    THEN Append(tasks[c], Task("ice", pcRef[c], "addIce", m.from, socket[c]))
    ELSE tasks[c]

\* the handler's body after the payload is parsed: the target filter and
\* the switch on the type, up to the first suspension
HandleMessage(c, m) ==
    LET n == Len(links[c]) + 1
    IN  IF Discards(c, m)
        THEN UNCHANGED callVars
        ELSE IF m.type = "offer"
        THEN /\ callState' = [callState EXCEPT ![c] = "receiving"]
             /\ targetClientId' = [targetClientId EXCEPT ![c] = m.from]
             /\ links' = [links EXCEPT ![c] =
                             CreatePeerConnection(c, m.from, socket[c])]
             /\ pcRef' = [pcRef EXCEPT ![c] = n]
             /\ tasks' = [tasks EXCEPT ![c] =
                     Append(@, Task("offer", n, "setRemote", m.from,
                                    socket[c]))]
        ELSE IF m.type = "answer"
        THEN /\ callState' = [callState EXCEPT ![c] = "connected"]
             /\ tasks' = [tasks EXCEPT ![c] =
                     IF pcRef[c] # 0
                     THEN Append(@, Task("answer", pcRef[c], "setRemote",
                                         m.from, socket[c]))
                     ELSE @]
             /\ UNCHANGED <<targetClientId, links, pcRef>>
        ELSE IF m.type = "ice-candidate"
        THEN /\ tasks' = [tasks EXCEPT ![c] = AddIceCandidate(c, m)]
             /\ UNCHANGED <<callState, targetClientId, links, pcRef>>
        ELSE UNCHANGED callVars

\* handleWebSocketMessage up to its first suspension
OnMessage(c) ==
    /\ c \in Controllers
    /\ socket[c]
    /\ toClient[c] # <<>>
    /\ toClient' = [toClient EXCEPT ![c] = Tail(@)]
    /\ LET p == JSONparse(Head(toClient[c]))
       IN  IF ~p.ok
           THEN /\ callState' = [callState EXCEPT ![c] = "idle"]
                /\ UNCHANGED <<targetClientId, links, pcRef, tasks>>
           ELSE HandleMessage(c, p.val)
    /\ UNCHANGED <<relayUp, readyState, toRelay, chanVars, idVars, histVars,
                   media, connectionState, events>>

NextPosSendEarly(kind, pos) ==
    IF kind = "call"
    THEN (IF pos = "createOffer" THEN "setLocal" ELSE "send")
    ELSE IF kind = "offer" THEN "send"
    ELSE "done"

\* the position after a resolved await, "send" when the chain then sends
NextPos(kind, pos) ==
    IF kind = "call"
    THEN (IF pos = "createOffer" THEN "setLocal" ELSE "send")
    ELSE IF kind = "offer"
    THEN (IF pos = "setRemote" THEN "createAnswer"
          ELSE IF pos = "createAnswer" THEN "setLocal" ELSE "send")
    ELSE "done"

CatchesOwnNever(kind) == FALSE

CatchesOwnAlways(kind) == TRUE

\* the chains whose rejection is caught before it reaches the handler's
\* catch: addIceCandidate has its own try/catch, which only logs
CatchesOwn(kind) == kind = "ice"

AfterSendConnected(kind, cs) == IF kind = "offer" THEN "connected" ELSE cs

\* the call state once a chain has sent its offer or answer: the handlers
\* call no state setter after sendMessage
AfterSend(kind, cs) == cs

\* an awaited collaborator operation of a suspended chain settles:
\* "ok" resolves it, "fail" rejects it (the handler's catch sets idle),
\* "hang" is an operation on a closed link that never settles
TaskStep(c, i, out) ==
    /\ c \in Controllers
    /\ LET t == tasks[c][i]
           closed == links[c][t.pc].closed
           np == NextPos(t.kind, t.pos)
           type == IF t.kind = "call" THEN "offer" ELSE "answer"
       IN  /\ out = "ok" => ~closed
           /\ out = "hang" => closed
           /\ IF out = "ok" /\ np \notin {"send", "done"}
              THEN /\ tasks' = [tasks EXCEPT ![c][i].pos = np]
                   /\ UNCHANGED <<callState, links, toRelay, firstSent>>
              ELSE /\ tasks' = [tasks EXCEPT ![c] = RemoveAt(@, i)]
                   /\ callState' = IF out = "fail" /\ ~CatchesOwn(t.kind)
                                   THEN [callState EXCEPT ![c] = "idle"]
                                   ELSE IF out = "ok" /\ np = "send"
                                   THEN [callState EXCEPT ![c] =
                                            AfterSend(t.kind, @)]
                                   ELSE callState
                   /\ links' = IF out = "ok" /\ np = "send"
                               THEN [links EXCEPT ![c][t.pc].local = TRUE]
                               ELSE links
                   /\ toRelay' = IF out = "ok" /\ np = "send"
                                 THEN [toRelay EXCEPT ![c] =
                                        SendMessage(c, t.sock,
                                            Msg(type, None, t.peer, "sdp"))]
                                 ELSE toRelay
                   /\ firstSent' = IF out = "ok" /\ np = "send"
                                   THEN NoteSent(c, t.sock, type)
                                   ELSE firstSent
    /\ UNCHANGED <<relayUp, readyState, toClient, chanVars, idVars,
                   targetClientId, pcRef, registeredIds, media,
                   connectionState, events>>

CandidateTargetNone(c, i) == None

\* the target of a candidate message: the targetClientId argument that
\* the link's onicecandidate closure captured in createPeerConnection
CandidateTarget(c, i) == links[c][i].peer

\* pc.onicecandidate with a candidate, on a link whose local description
\* is set
LocalCandidate(c, i) ==
    /\ c \in Controllers
    /\ events < MaxEvents
    /\ links[c][i].local /\ ~links[c][i].closed
    /\ toRelay' = [toRelay EXCEPT ![c] =
            SendMessage(c, links[c][i].sock,
                        Msg("ice-candidate", None, CandidateTarget(c, i),
                            "cand"))]
    /\ firstSent' = NoteSent(c, links[c][i].sock, "ice-candidate")
    /\ events' = events + 1
    /\ UNCHANGED <<relayUp, readyState, toClient, chanVars, idVars, callVars,
                   registeredIds, media, connectionState>>

\* pc.onconnectionstatechange on a link that is not closed, when the
\* collaborator reports that the link failed or closed:
\* setConnectionState(pc.connectionState)
ConnectionStateChange(c, i, st) ==
    /\ c \in Controllers
    /\ events < MaxEvents
    /\ ~links[c][i].closed
    /\ connectionState' = [connectionState EXCEPT ![c] = st]
    /\ events' = events + 1
    /\ UNCHANGED <<relayVars, chanVars, idVars, callVars, histVars, media>>

----------------------------------------------------------------------------
\* Page lifecycle of a controller

\* the page is loaded again: the component is unmounted (ws.close()) and
\* mounted afresh, and generateClientId reads the store
Reload(c, rnd) ==
    /\ c \in Controllers
    /\ events < MaxEvents
    /\ readyState' = [readyState EXCEPT ![c] = "CONNECTING"]
    /\ toRelay' = [toRelay EXCEPT ![c] = <<>>]
    /\ toClient' = Disconnected(c)
    /\ socket' = [socket EXCEPT ![c] = FALSE]
    /\ isConnected' = [isConnected EXCEPT ![c] = FALSE]
    /\ clientId' = [clientId EXCEPT ![c] = GenerateClientId(storage[c], rnd)]
    /\ storage' = [storage EXCEPT ![c] = GenerateClientId(storage[c], rnd)]
    /\ callState' = [callState EXCEPT ![c] = "idle"]
    /\ targetClientId' = [targetClientId EXCEPT ![c] = None]
    /\ links' = [links EXCEPT ![c] = <<>>]
    /\ pcRef' = [pcRef EXCEPT ![c] = 0]
    /\ tasks' = [tasks EXCEPT ![c] = <<>>]
    /\ media' = [media EXCEPT ![c] = "pending"]
    /\ connectionState' = [connectionState EXCEPT ![c] = "new"]
    /\ firstSent' = [firstSent EXCEPT ![c] = None]
    /\ events' = events + 1
    /\ UNCHANGED <<relayUp, cleared, registeredIds>>

\* the user removes the site's stored data
ClearStorage(c) ==
    /\ c \in Controllers
    /\ events < MaxEvents
    /\ storage[c] # None
    /\ storage' = [storage EXCEPT ![c] = None]
    /\ cleared' = [cleared EXCEPT ![c] = TRUE]
    /\ events' = events + 1
    /\ UNCHANGED <<relayVars, chanVars, clientId, callVars, histVars, media,
                   connectionState>>

----------------------------------------------------------------------------
\* The external peer

ExtFrames ==
    {Garbage,
     JSONstringify(Msg("bogus", ForeignId, None, "forged")),
     JSONstringify(Msg(None, ForeignId, None, "forged"))}
    \cup {JSONstringify(Msg(t, ForeignId, g, "forged")) :
            t \in {"offer", "answer"}, g \in Ids}
    \cup {JSONstringify(Msg(t, ForeignId, None, "forged")) :
            t \in {"answer", "candidate"}}

ExtConnect ==
    /\ relayUp
    /\ readyState[Ext] = "CLOSED"
    /\ readyState' = [readyState EXCEPT ![Ext] = "OPEN"]
    /\ UNCHANGED <<relayUp, toRelay, toClient, chanVars, idVars, callVars,
                   histVars, media, connectionState, events>>

\* the external peer transmits a payload; it has one frame in flight at a
\* time (the relay handles a connection's frames in order, and nothing else
\* reads them, so queueing several reaches no further relay behaviour)
ExtSend(raw) ==
    /\ events < MaxEvents
    /\ readyState[Ext] = "OPEN"
    /\ toRelay[Ext] = <<>>
    /\ toRelay' = [toRelay EXCEPT ![Ext] = Append(@, raw)]
    /\ events' = events + 1
    /\ UNCHANGED <<relayUp, readyState, toClient, chanVars, idVars, callVars,
                   histVars, media, connectionState>>

----------------------------------------------------------------------------
\* Other tabs of the controller's browser (the cross-tab variant)

\* the messages a page of the same origin posts on the 'voip-signaling'
\* BroadcastChannel: candidates that are well-formed ("cand"), empty or
\* unreadable ("bad"), and untargeted offers and answers; a tab of the same
\* browser read the same stored identity
TabMessages(c) ==
    {Msg("ice-candidate", clientId[c], g, b) :
        g \in Ids \cup {None}, b \in {"cand", "bad", None}}
    \cup {Msg(t, clientId[c], None, "sdp") : t \in {"offer", "answer"}}

\* handleBroadcastMessage: event.data is the message object itself
TabMessage(c, m) ==
    /\ c \in Controllers
    /\ events < MaxEvents
    /\ HandleMessage(c, m)
    /\ events' = events + 1
    /\ UNCHANGED <<relayVars, chanVars, idVars, histVars, media,
                   connectionState>>

----------------------------------------------------------------------------
\* Specification

\* Both pages have loaded: each controller has generated and stored its
\* identity ("1111" and "2222"), opened its channel and registered on it
\* (WsOpen), and acquired local media; the user may have typed a target;
\* the external peer is connected.  Reload returns a controller to its
\* freshly constructed state, from which start-up runs again.
Init ==
    /\ relayUp = TRUE
    /\ readyState = [c \in Conns |-> "OPEN"]
    /\ toRelay = [c \in Conns |-> <<>>]
    /\ toClient = [c \in Conns |-> <<>>]
    /\ storage = [c \in Controllers |-> IF c = "A" THEN "1111" ELSE "2222"]
    /\ clientId = storage
    /\ socket = [c \in Controllers |-> TRUE]
    /\ isConnected = [c \in Controllers |-> TRUE]
    /\ callState = [c \in Controllers |-> "idle"]
    /\ media = [c \in Controllers |-> "ready"]
    /\ connectionState = [c \in Controllers |-> "new"]
    /\ targetClientId \in [Controllers -> Ids \cup {None}]
    /\ links = [c \in Controllers |-> <<>>]
    /\ pcRef = [c \in Controllers |-> 0]
    /\ tasks = [c \in Controllers |-> <<>>]
    /\ events = 0
    /\ cleared = [c \in Controllers |-> FALSE]
    /\ registeredIds = [c \in Controllers |-> {clientId[c]}]
    /\ firstSent = [c \in Controllers |-> "register"]

Next ==
    \/ \E s \in Conns : RelayOnMessage(s)
    \/ \E c \in Controllers : WsOpen(c)
    \/ \E c \in Controllers : WsConnectFail(c)
    \/ \E c \in Conns : BeginClose(c)
    \/ \E c \in Conns : FinishClose(c)
    \/ \E c \in Controllers : ReconnectTimer(c)
    \/ \E c \in Controllers, ok \in BOOLEAN : MediaResult(c, ok)
    \/ \E c \in Controllers, t \in Ids \cup {None} : SetTarget(c, t)
    \/ \E c \in Controllers : InitiateCall(c)
    \/ \E c \in Controllers : OnMessage(c)
    \/ \E c \in Controllers, out \in {"ok", "fail", "hang"} :
          \E i \in DOMAIN tasks[c] : TaskStep(c, i, out)
    \/ \E c \in Controllers : \E i \in DOMAIN links[c] : LocalCandidate(c, i)
    \/ \E c \in Controllers, st \in {"failed", "closed"} :
          \E i \in DOMAIN links[c] : ConnectionStateChange(c, i, st)
    \/ \E c \in Controllers, rnd \in Ids : Reload(c, rnd)
    \/ \E c \in Controllers : ClearStorage(c)
    \/ ExtConnect
    \/ \E raw \in ExtFrames : ExtSend(raw)

Spec == Init /\ [][Next]_vars

\* The behaviours in which every channel stays open and every collaborator
\* operation that can succeed does: no connection loss, reload, forged
\* frame or rejected operation.  The relay's event loop handles every frame
\* it received, the browser dispatches every message event, and every
\* awaited operation on a live link settles.
NextLive ==
    \/ \E s \in Conns : RelayOnMessage(s)
    \/ \E c \in Controllers, t \in Ids \cup {None} : SetTarget(c, t)
    \/ \E c \in Controllers : InitiateCall(c)
    \/ \E c \in Controllers : OnMessage(c)
    \/ \E c \in Controllers : \E i \in DOMAIN tasks[c] : TaskStep(c, i, "ok")
    \/ \E c \in Controllers : \E i \in DOMAIN links[c] : LocalCandidate(c, i)

LiveSpec ==
    /\ Init
    /\ [][NextLive]_vars
    /\ \A s \in Conns : WF_vars(RelayOnMessage(s))
    /\ \A c \in Controllers : WF_vars(OnMessage(c))
    /\ \A c \in Controllers :
            WF_vars(\E i \in DOMAIN tasks[c] : TaskStep(c, i, "ok"))

\* The cross-tab variant: the same program, and the controller also
\* handles what other tabs post on the BroadcastChannel.
NextTab ==
    \/ Next
    \/ \E c \in Controllers : \E m \in TabMessages(c) : TabMessage(c, m)

TabSpec == Init /\ [][NextTab]_vars

\* The signaling channels alone: losses, failed attempts, the reconnection
\* timer and the relay.  A timer that was set fires, and a connection
\* attempt to the running relay that does not fail completes.
NextReconnect ==
    \/ \E s \in Conns : RelayOnMessage(s)
    \/ \E c \in Controllers : WsOpen(c)
    \/ \E c \in Controllers : WsConnectFail(c)
    \/ \E c \in Controllers : BeginClose(c)
    \/ \E c \in Controllers : FinishClose(c)
    \/ \E c \in Controllers : ReconnectTimer(c)

ReconnectSpec ==
    /\ Init
    /\ [][NextReconnect]_vars
    /\ \A c \in Controllers : WF_vars(ReconnectTimer(c))
    /\ \A c \in Controllers : WF_vars(WsOpen(c))

----------------------------------------------------------------------------
\* Properties

Frames(q) == {q[i] : i \in DOMAIN q}

HeadMsg(q) == JSONparse(Head(q)).val

LiveLinks(c) == {i \in DOMAIN links[c] : ~links[c][i].closed}

\* C1: the relay never delivers a frame back to the connection it came
\* from: handling a frame from s adds nothing to what s receives.
C1_NoEcho ==
    [][\A s \in Conns : RelayOnMessage(s) => toClient'[s] = toClient[s]]_vars

\* the external peer's frame reached a controller and not the peer itself
C1_Witness ==
    /\ events = 1
    /\ readyState[Ext] = "OPEN"
    /\ toClient[Ext] = <<>>
    /\ toClient["A"] # <<>>
    /\ toClient["B"] # <<>>

\* C2: a well-formed offer or answer is delivered exactly once to every
\* other connection that is open, whatever its target, and to no other.
C2_OfferAnswerFanOut ==
    [][\A s \in Conns :
        (/\ RelayOnMessage(s)
         /\ Head(toRelay[s]).wf
         /\ HeadMsg(toRelay[s]).type \in {"offer", "answer"})
        => \A c \in Conns :
              toClient'[c] =
                IF c # s /\ readyState[c] = "OPEN"
                THEN Append(toClient[c], JSONstringify(HeadMsg(toRelay[s])))
                ELSE toClient[c]]_vars

\* A's offer, targeted at neither, lies delivered at both B and the
\* external peer
C2_Witness ==
    \E f \in Frames(toClient["B"]) \cap Frames(toClient[Ext]) :
        /\ f.msg.type = "offer"
        /\ f.msg.from = clientId["A"]
        /\ f.msg.target # None
        /\ f.msg.target # clientId["B"]

\* C3: an ice-candidate frame is forwarded to every other open connection,
\* as offers and answers are.
C3_IceCandidateFanOut ==
    [][\A s \in Conns :
        (/\ RelayOnMessage(s)
         /\ Head(toRelay[s]).wf
         /\ HeadMsg(toRelay[s]).type = "ice-candidate")
        => \A c \in Conns \ {s} :
              readyState[c] = "OPEN" =>
                toClient'[c] =
                    Append(toClient[c], JSONstringify(HeadMsg(toRelay[s])))]_vars

\* C4: a frame whose target is present and is not the controller's own
\* identity changes nothing of the controller (call state, links, active
\* link, remembered peer, suspended chains) and makes it send nothing.
C4_ForeignTargetDiscarded ==
    [][\A c \in Controllers :
        (/\ OnMessage(c)
         /\ HeadMsg(toClient[c]).target # None
         /\ HeadMsg(toClient[c]).target # clientId[c])
        => /\ callState'[c] = callState[c]
           /\ links'[c] = links[c]
           /\ pcRef'[c] = pcRef[c]
           /\ targetClientId'[c] = targetClientId[c]
           /\ tasks'[c] = tasks[c]
           /\ toRelay'[c] = toRelay[c]]_vars

\* B, which is not idle, is about to handle an offer addressed to another
\* identity
C4_Witness ==
    /\ socket["B"]
    /\ callState["B"] # "idle"
    /\ toClient["B"] # <<>>
    /\ HeadMsg(toClient["B"]).type = "offer"
    /\ HeadMsg(toClient["B"]).target # None
    /\ HeadMsg(toClient["B"]).target # clientId["B"]

\* a suspended chain awaits an operation on a link that has been closed:
\* that operation cannot succeed
OperationFailed ==
    \E c \in Controllers : \E i \in DOMAIN tasks[c] :
        links[c][tasks[c][i].pc].closed

CallPlaced ==
    \E i \in DOMAIN tasks["A"] :
        /\ tasks["A"][i].kind = "call"
        /\ tasks["A"][i].peer = clientId["B"]

OfferFrame == JSONstringify(Msg("offer", clientId["A"], clientId["B"], "sdp"))

AnswerFrame == JSONstringify(Msg("answer", clientId["B"], clientId["A"], "sdp"))

BAnswering ==
    /\ callState["B"] = "receiving"
    /\ \E i \in DOMAIN tasks["B"] :
            tasks["B"][i].kind = "offer" /\ tasks["B"][i].peer = clientId["A"]

\* C5: with both channels open and every collaborator operation
\* succeeding, once A has initiated a call to B the relay forwards A's
\* offer to B, B enters receiving and sends an answer targeted at A, the
\* relay forwards it to A, and A enters connected.
C5_RoundTrip ==
    /\ CallPlaced ~> (OfferFrame \in Frames(toClient["B"]) \/ OperationFailed)
    /\ OfferFrame \in Frames(toClient["B"]) ~> (BAnswering \/ OperationFailed)
    /\ BAnswering ~> (AnswerFrame \in Frames(toRelay["B"]) \/ OperationFailed)
    /\ AnswerFrame \in Frames(toRelay["B"]) ~> AnswerFrame \in Frames(toClient["A"])
    /\ AnswerFrame \in Frames(toClient["A"]) ~> callState["A"] = "connected"

\* A, having called B, is connected by B's answer, and no operation failed
C5_Witness ==
    /\ callState["A"] = "connected"
    /\ callState["B"] = "receiving"
    /\ ~OperationFailed
    /\ \E i \in DOMAIN tasks["A"] : tasks["A"][i].kind = "answer"
    /\ \E i \in DOMAIN links["A"] : links["A"][i].peer = clientId["B"]
    /\ \E i \in DOMAIN links["B"] : links["B"][i].peer = clientId["A"]

\* C6: from idle, one step leaves the state idle, or moves it to calling
\* by local call initiation, or to receiving by an inbound offer.
C6_IdleSuccessors ==
    [][\A c \in Controllers :
        callState[c] = "idle" =>
            \/ callState'[c] = "idle"
            \/ callState'[c] = "calling" /\ InitiateCall(c)
            \/ /\ callState'[c] = "receiving"
               /\ OnMessage(c)
               /\ HeadMsg(toClient[c]).type = "offer"]_vars

\* C7: connected is entered only by handling an inbound answer while
\* calling, or by sending the controller's own answer while receiving.
C7_ConnectedEntry ==
    [][\A c \in Controllers :
        (callState[c] # "connected" /\ callState'[c] = "connected") =>
            \/ /\ callState[c] = "calling"
               /\ OnMessage(c)
               /\ HeadMsg(toClient[c]).type = "answer"
            \/ /\ callState[c] = "receiving"
               /\ \E i \in DOMAIN tasks[c] : TaskStep(c, i, "ok")
               /\ toRelay'[c] # toRelay[c]]_vars

\* C8: a controller never has two un-closed links, and the un-closed one
\* is the active link.
C8_SingleLiveLink ==
    \A c \in Controllers :
        /\ Cardinality(LiveLinks(c)) <= 1
        /\ LiveLinks(c) \subseteq {pcRef[c]}

\* a second link was created: the first is closed, the second is active
C8_Witness ==
    \E c \in Controllers :
        /\ Len(links[c]) = 2
        /\ links[c][1].closed
        /\ LiveLinks(c) = {2}

\* C9: a payload that is not JSON, or whose type is unknown or missing,
\* leaves the relay running and every connection as it was, and delivers
\* nothing to anyone.
C9_MalformedIgnored ==
    [][\A s \in Conns :
        (/\ RelayOnMessage(s)
         /\ \/ ~Head(toRelay[s]).wf
            \/ HeadMsg(toRelay[s]).type \in {"bogus", None})
        => /\ relayUp'
           /\ readyState' = readyState
           /\ toClient' = toClient]_vars

\* the relay is about to handle a payload that is not JSON while both
\* controllers are connected
C9_Witness ==
    /\ relayUp
    /\ \A c \in Conns : readyState[c] = "OPEN"
    /\ toRelay[Ext] # <<>>
    /\ ~Head(toRelay[Ext]).wf

\* C10: the first frame a controller sends on a channel is its register
\* frame, and while the stored identity has not been removed every
\* register frame carries that one identity.
C10_RegisterSameIdentity ==
    \A c \in Controllers :
        /\ firstSent[c] \in {None, "register"}
        /\ ~cleared[c] =>
                /\ registeredIds[c] = {storage[c]}
                /\ clientId[c] = storage[c]

\* A has reopened its channel and its register frame is in flight
C10_Witness ==
    /\ ~cleared["A"]
    /\ readyState["A"] = "OPEN"
    /\ toRelay["A"] # <<>>
    /\ HeadMsg(toRelay["A"]).type = "register"
    /\ HeadMsg(toRelay["A"]).body = clientId["A"]

\* C11: handling an inbound ice-candidate message, and the settling of the
\* candidate operation it started (accepted, rejected or never settled),
\* changes neither the controller's call state nor its links nor which
\* link is active, whatever the call state and the candidate data.
C11_CandidateKeepsState ==
    [][\A c \in Controllers :
        (\/ \E m \in TabMessages(c) :
                m.type = "ice-candidate" /\ TabMessage(c, m)
         \/ /\ OnMessage(c)
            /\ Head(toClient[c]).wf
            /\ HeadMsg(toClient[c]).type = "ice-candidate"
         \/ \E i \in DOMAIN tasks[c], out \in {"ok", "fail", "hang"} :
                tasks[c][i].kind = "ice" /\ TaskStep(c, i, out))
        => /\ callState'[c] = callState[c]
           /\ pcRef'[c] = pcRef[c]
           /\ links'[c] = links[c]]_vars

\* a candidate arrived before the answer: B, still receiving, awaits the
\* collaborator's verdict on it
C11_Witness ==
    /\ callState["B"] = "receiving"
    /\ pcRef["B"] # 0
    /\ \E i \in DOMAIN tasks["B"] : tasks["B"][i].kind = "ice"
    /\ \E i \in DOMAIN tasks["B"] : tasks["B"][i].kind = "offer"

\* C12: a call is initiated (the state becomes calling, a link is created,
\* an offer chain starts) only when the signaling channel is open, local
\* media was acquired, the call state is idle and a target is set.
C12_CallPreconditions ==
    [][\A c \in Controllers :
        (\/ InitiateCall(c)
         \/ callState[c] # "calling" /\ callState'[c] = "calling")
        => /\ readyState[c] = "OPEN"
           /\ mediaReady(c)
           /\ callState[c] = "idle"
           /\ targetClientId[c] # None]_vars

\* C13: when an awaited negotiation step (createOffer, setLocalDescription,
\* setRemoteDescription, createAnswer) of a call initiation, an offer
\* handling or an answer handling rejects, the controller's call state is
\* idle after that step, whatever else was interleaved before it.
C13_FailureCollapsesToIdle ==
    [][\A c \in Controllers : \A i \in DOMAIN tasks[c] :
        (/\ tasks[c][i].kind \in {"call", "offer", "answer"}
         /\ TaskStep(c, i, "fail"))
        => callState'[c] = "idle"]_vars

\* a negotiation step rejected: the controller is idle and its active link
\* never got a local description, with nothing left pending
C13_Witness ==
    \E c \in Controllers :
        /\ callState[c] = "idle"
        /\ tasks[c] = <<>>
        /\ pcRef[c] # 0
        /\ ~links[c][pcRef[c]].closed
        /\ ~links[c][pcRef[c]].local

\* C14: when applying a session description (setLocalDescription or
\* setRemoteDescription) fails, the controller ends idle with no active
\* link, and the link the operation ran on is closed.
C14_FailureReleasesLink ==
    [][\A c \in Controllers : \A i \in DOMAIN tasks[c] :
        (/\ tasks[c][i].pos \in {"setLocal", "setRemote"}
         /\ TaskStep(c, i, "fail"))
        => /\ callState'[c] = "idle"
           /\ pcRef'[c] = 0
           /\ links'[c][tasks[c][i].pc].closed]_vars

\* C15: when the collaborator reports that the active link failed or
\* closed, the controller's call state becomes idle and it holds no active
\* link any more.
C15_LinkLossResets ==
    [][\A c \in Controllers : \A i \in DOMAIN links[c] :
        (\E st \in {"failed", "closed"} : ConnectionStateChange(c, i, st))
        => /\ callState'[c] = "idle"
           /\ pcRef'[c] = 0]_vars

\* C16: the relay handles a register frame as a registration: it records
\* the frame's identity for the connection instead of treating the frame
\* as one it does not handle.
C16_RegisterRecorded ==
    [][\A s \in Conns :
        (/\ RelayOnMessage(s)
         /\ Head(toRelay[s]).wf
         /\ HeadMsg(toRelay[s]).type = "register")
        => RelayOutcome(Head(toRelay[s])) = "registered"]_vars

\* C17: when a connection goes away (its socket closes, or its page is
\* reloaded) no other connection receives anything because of it and the
\* relay keeps running; afterwards a broadcast delivers nothing to the
\* closed connection and still reaches every other open connection.
C17_SilentDisconnect ==
    [][/\ \A c \in Conns :
            (FinishClose(c) \/ \E rnd \in Ids : Reload(c, rnd))
            => /\ relayUp' = relayUp
               /\ \A d \in Conns \ {c} : toClient'[d] = toClient[d]
       /\ \A s \in Conns :
            (/\ RelayOnMessage(s)
             /\ \E c \in Conns : readyState[c] = "CLOSED")
            => /\ relayUp'
               /\ \A c \in Conns :
                    readyState[c] = "CLOSED" => toClient'[c] = <<>>
               /\ \A d \in Conns \ {s} :
                    (/\ readyState[d] = "OPEN"
                     /\ Head(toRelay[s]).wf
                     /\ HeadMsg(toRelay[s]).type \in {"offer", "answer"})
                    => toClient'[d] =
                         Append(toClient[d],
                                JSONstringify(HeadMsg(toRelay[s])))]_vars

\* B's connection closed while A's call was under way; A's offer reached
\* the external peer, and B got nothing
C17_Witness ==
    /\ readyState["B"] = "CLOSED"
    /\ toClient["B"] = <<>>
    /\ callState["A"] = "calling"
    /\ \E f \in Frames(toClient[Ext]) :
            f.msg.type = "offer" /\ f.msg.from = clientId["A"]

\* C18: while some tracked connection is not open, a broadcast gives that
\* connection nothing, leaves the relay running, and still delivers the
\* frame once to every other connection that is open.
C18_NonOpenSkipped ==
    [][\A s \in Conns :
        (/\ RelayOnMessage(s)
         /\ Head(toRelay[s]).wf
         /\ HeadMsg(toRelay[s]).type \in {"offer", "answer", "candidate"}
         /\ \E c \in wssClients \ {s} : readyState[c] # "OPEN")
        => /\ relayUp'
           /\ \A c \in Conns \ {s} :
                IF readyState[c] # "OPEN"
                THEN toClient'[c] = toClient[c]
                ELSE toClient'[c] =
                        Append(toClient[c],
                               JSONstringify(HeadMsg(toRelay[s])))]_vars

\* B's connection is closing: A's offer to B was broadcast, the external
\* peer has it, and B, still idle, never got it
C18_Witness ==
    /\ readyState["B"] = "CLOSING"
    /\ toClient["B"] = <<>>
    /\ callState["B"] = "idle"
    /\ links["B"] = <<>>
    /\ \E f \in Frames(toClient[Ext]) :
            /\ f.msg.type = "offer"
            /\ f.msg.from = clientId["A"]
            /\ f.msg.target = clientId["B"]

\* C19: every offer, answer and ice-candidate frame a controller has
\* transmitted carries that controller's own identity as its from field,
\* whatever from value the message handed to sendMessage had.
C19_FromIsSender ==
    \A c \in Controllers : \A f \in Frames(toRelay[c]) :
        f.msg.type \in {"offer", "answer", "ice-candidate"}
            => f.msg.from = clientId[c]

\* B has transmitted both its answer and a candidate
C19_Witness ==
    /\ \E f \in Frames(toRelay["B"]) :
            f.msg.type = "answer" /\ f.msg.from = clientId["B"]
    /\ \E f \in Frames(toRelay["B"]) :
            f.msg.type = "ice-candidate" /\ f.msg.from = clientId["B"]

\* C20: in every frame a controller has transmitted, a target that is
\* present differs from the frame's from field.
C20_TargetIsNotSender ==
    \A c \in Controllers : \A f \in Frames(toRelay[c]) :
        f.msg.target # None => f.msg.target # f.msg.from

\* C21: an answer or ice-candidate that the controller does not discard,
\* arriving while it has no active link, changes neither the call state nor
\* the links nor the active link.
C21_NoLinkNoEffect ==
    [][\A c \in Controllers :
        (/\ OnMessage(c)
         /\ Head(toClient[c]).wf
         /\ HeadMsg(toClient[c]).type \in {"answer", "ice-candidate"}
         /\ HeadMsg(toClient[c]).target \in {None, clientId[c]}
         /\ pcRef[c] = 0)
        => /\ callState'[c] = callState[c]
           /\ links'[c] = links[c]
           /\ pcRef'[c] = pcRef[c]]_vars

\* C22: whenever a controller's channel has closed (after a loss or after
\* a failed attempt) a new connection attempt follows, and once attempts
\* stop failing the controller has an open channel again on which its
\* register frame was the first frame sent.
C22_ReconnectsForever ==
    \A c \in Controllers :
        /\ readyState[c] = "CLOSED" ~> readyState[c] = "CONNECTING"
        /\ readyState[c] = "CLOSED" ~>
                (/\ readyState[c] = "OPEN"
                 /\ isConnected[c]
                 /\ socket[c]
                 /\ firstSent[c] = "register")

\* after a loss and one more event on its channel, A is open again and its
\* register frame is on the way to the relay
C22_Witness ==
    /\ events = 2
    /\ readyState["A"] = "OPEN"
    /\ isConnected["A"]
    /\ readyState["B"] = "OPEN"
    /\ toRelay["B"] = <<>>
    /\ toRelay["A"] =
            <<JSONstringify(Msg("register", None, None, clientId["A"]))>>

\* C23: when a chain reaches its sendMessage call (the offer of a call,
\* the answer to an offer, a local candidate) while the channel it captured
\* is gone or not open, nothing is transmitted and the call state stays
\* what it was: the drop is not treated as a failure.
C23_SilentDrop ==
    [][\A c \in Controllers :
        /\ \A i \in DOMAIN tasks[c] :
              (/\ TaskStep(c, i, "ok")
               /\ NextPos(tasks[c][i].kind, tasks[c][i].pos) = "send"
               /\ ~(tasks[c][i].sock /\ readyState[c] = "OPEN"))
              => /\ toRelay' = toRelay
                 /\ callState'[c] = callState[c]
        /\ \A i \in DOMAIN links[c] :
              (/\ LocalCandidate(c, i)
               /\ ~(links[c][i].sock /\ readyState[c] = "OPEN"))
              => /\ toRelay' = toRelay
                 /\ callState'[c] = callState[c]]_vars

\* A's offer was dropped: its channel is closing, the offer chain ran to
\* its end, nothing was transmitted, and A stays in calling
C23_Witness ==
    /\ events <= 2
    /\ readyState["A"] = "CLOSING"
    /\ callState["A"] = "calling"
    /\ tasks["A"] = <<>>
    /\ pcRef["A"] # 0
    /\ links["A"][pcRef["A"]].local
    /\ toRelay["A"] = <<>>
    /\ readyState[Ext] = "OPEN"
    /\ toClient[Ext] = <<>>

\* C24: while a negotiation chain of a controller (call initiation, offer
\* handling, answer handling) is suspended at an awaited step on a link
\* that is not closed, no inbound message and no call initiation creates,
\* replaces or changes that controller's links.
C24_SingleWriter ==
    [][\A c \in Controllers :
        (/\ \E i \in DOMAIN tasks[c] :
                /\ tasks[c][i].kind \in {"call", "offer", "answer"}
                /\ ~links[c][tasks[c][i].pc].closed
         /\ (OnMessage(c) \/ InitiateCall(c)))
        => /\ links'[c] = links[c]
           /\ pcRef'[c] = pcRef[c]]_vars

\* C25: an answer the controller does not discard connects it, and is
\* applied to the active link, only if the controller is calling and the
\* answer comes from the active link's remote peer; any other answer
\* changes neither the call state nor the links and starts no chain.
C25_AnswerOnlyWhenCalling ==
    [][\A c \in Controllers :
        (/\ OnMessage(c)
         /\ Head(toClient[c]).wf
         /\ HeadMsg(toClient[c]).type = "answer"
         /\ HeadMsg(toClient[c]).target \in {None, clientId[c]})
        => IF /\ callState[c] = "calling"
              /\ pcRef[c] # 0
              /\ HeadMsg(toClient[c]).from = links[c][pcRef[c]].peer
           THEN callState'[c] = "connected"
           ELSE /\ callState'[c] = callState[c]
                /\ links'[c] = links[c]
                /\ tasks'[c] = tasks[c]]_vars

Last(q) == q[Len(q)]

\* C26: whenever a controller transmits an answer, the step is the
\* completion of setLocalDescription in the chain that handles an offer
\* (after that chain's setRemoteDescription and createAnswer), on the link
\* created for that offer, and the answer's target is the from of that
\* offer; also when the controller handled another peer's offer meanwhile.
C26_AnswerToOfferer ==
    [][\A c \in Controllers :
        (/\ Len(toRelay'[c]) = Len(toRelay[c]) + 1
         /\ Last(toRelay'[c]).msg.type = "answer")
        => \E i \in DOMAIN tasks[c] :
              /\ TaskStep(c, i, "ok")
              /\ tasks[c][i].kind = "offer"
              /\ tasks[c][i].pos = "setLocal"
              /\ links'[c][tasks[c][i].pc].local
              /\ Last(toRelay'[c]).msg.target = tasks[c][i].peer
              /\ Last(toRelay'[c]).msg.target =
                    links[c][tasks[c][i].pc].peer]_vars

\* B took offers from two different peers; the chain of the first is still
\* suspended on its closed link, and B's answer goes to the peer of the
\* second
C26_Witness ==
    /\ Len(links["B"]) = 2
    /\ links["B"][1].closed
    /\ links["B"][1].peer # links["B"][2].peer
    /\ links["B"][2].local
    /\ \E i \in DOMAIN tasks["B"] :
            tasks["B"][i].kind = "offer" /\ tasks["B"][i].pc = 1
    /\ toRelay["B"] # <<>>
    /\ Last(toRelay["B"]).msg.type = "answer"
    /\ Last(toRelay["B"]).msg.target = links["B"][2].peer

\* C27: when a link's candidate callback transmits a candidate, the frame
\* is an ice-candidate whose target is the remote peer that link was
\* created for, and the controller's call state, links and active link
\* stay as they were.
C27_CandidateToLinkPeer ==
    [][\A c \in Controllers : \A i \in DOMAIN links[c] :
        (/\ LocalCandidate(c, i)
         /\ links[c][i].sock
         /\ readyState[c] = "OPEN")
        => /\ toRelay'[c] =
                Append(toRelay[c],
                       JSONstringify(Msg("ice-candidate", clientId[c],
                                         links[c][i].peer, "cand")))
           /\ callState'[c] = callState[c]
           /\ links'[c] = links[c]
           /\ pcRef'[c] = pcRef[c]]_vars

\* B, still receiving, has transmitted a candidate to the peer whose offer
\* it answered
C27_Witness ==
    /\ callState["B"] = "receiving"
    /\ pcRef["B"] # 0
    /\ toRelay["B"] # <<>>
    /\ Last(toRelay["B"]).msg.type = "ice-candidate"
    /\ Last(toRelay["B"]).msg.target = links["B"][pcRef["B"]].peer

\* C28: the frame the relay delivers to a recipient has the type, from,
\* target and payload of the frame the sender transmitted.
C28_RelayPreservesFields ==
    [][\A s \in Conns : \A c \in Conns :
        (/\ RelayOnMessage(s)
         /\ Len(toClient'[c]) = Len(toClient[c]) + 1)
        => /\ Last(toClient'[c]).wf
           /\ Last(toClient'[c]).msg.type = HeadMsg(toRelay[s]).type
           /\ Last(toClient'[c]).msg.from = HeadMsg(toRelay[s]).from
           /\ Last(toClient'[c]).msg.target = HeadMsg(toRelay[s]).target
           /\ Last(toClient'[c]).msg.body = HeadMsg(toRelay[s]).body]_vars

\* the external peer's answer for "1111" lies delivered at B, which is not
\* "1111", with its sender, target and payload intact
C28_Witness ==
    /\ clientId["B"] # "1111"
    /\ toClient["B"] # <<>>
    /\ Last(toClient["B"]).msg = Msg("answer", ForeignId, "1111", "forged")

\* C29: an offer that carries the controller's identity or no target is
\* handled in every call state: the call state becomes receiving, the
\* link that was active is closed, and a new link for the offer's sender
\* becomes the active link.
C29_OfferPreempts ==
    [][\A c \in Controllers :
        (/\ OnMessage(c)
         /\ Head(toClient[c]).wf
         /\ HeadMsg(toClient[c]).type = "offer"
         /\ HeadMsg(toClient[c]).target \in {None, clientId[c]})
        => /\ callState'[c] = "receiving"
           /\ Len(links'[c]) = Len(links[c]) + 1
           /\ pcRef'[c] = Len(links'[c])
           /\ ~links'[c][pcRef'[c]].closed
           /\ links'[c][pcRef'[c]].peer = HeadMsg(toClient[c]).from
           /\ targetClientId'[c] = HeadMsg(toClient[c]).from
           /\ \A i \in DOMAIN links[c] : links'[c][i].closed]_vars

\* B was calling when an offer arrived: its call's link is closed with the
\* call chain still suspended on it, and B is receiving on a new link
C29_Witness ==
    /\ callState["B"] = "receiving"
    /\ Len(links["B"]) = 2
    /\ links["B"][1].closed
    /\ pcRef["B"] = 2
    /\ \E i \in DOMAIN tasks["B"] :
            tasks["B"][i].kind = "call" /\ tasks["B"][i].pc = 1

\* C30: a controller in receiving stays in receiving when it sends its
\* answer; within the life of its page it becomes connected only by
\* handling an inbound answer, and idle only by a failure in a handler (a
\* rejected step or an unreadable payload); it never goes to calling.
C30_CalleeStaysReceiving ==
    [][\A c \in Controllers :
        (callState[c] = "receiving" /\ ~\E rnd \in Ids : Reload(c, rnd))
        => \/ callState'[c] = "receiving"
           \/ /\ callState'[c] = "connected"
              /\ OnMessage(c)
              /\ Head(toClient[c]).wf
              /\ HeadMsg(toClient[c]).type = "answer"
           \/ /\ callState'[c] = "idle"
              /\ \/ \E i \in DOMAIN tasks[c] : TaskStep(c, i, "fail")
                 \/ OnMessage(c) /\ ~Head(toClient[c]).wf]_vars

\* B's answer chain has run to its end and the answer is transmitted; B is
\* still receiving
C30_Witness ==
    /\ callState["B"] = "receiving"
    /\ tasks["B"] = <<>>
    /\ pcRef["B"] # 0
    /\ links["B"][pcRef["B"]].local
    /\ \E f \in Frames(toRelay["B"]) \cup Frames(toClient["A"]) :
            f.msg.type = "answer" /\ f.msg.from = clientId["B"]

====
